---- MODULE Spec2Model ----
(***************************************************************************)
(* google.cloud.vision.client: the Client facade of the Cloud Vision API.  *)
(* The module constant _USE_GAX, Client.__init__, Client.batch,            *)
(* Client.image and the lazily memoized property Client._vision_api.       *)
(*                                                                         *)
(* One caller, every method runs to completion:                            *)
(*   Spec      : import, environment changes, Client(...) with every       *)
(*               combination of arguments and ambient defaults, _vision_api*)
(*   SpecBatch : import, Client(...), _vision_api, batch()                 *)
(*   SpecImage : import, Client(...), _vision_api, image()                 *)
(*   SpecFlag  : import, environment changes, Client(...), _vision_api,    *)
(*               and the caller may reassign client._use_gax               *)
(*   SpecAll   : SpecFlag with batch() and image()                         *)
(* Several callers:                                                        *)
(*   SpecMT    : threads inside the _vision_api property at once,          *)
(*               interleaved at its reads and writes of the instance.      *)
(* In all but Spec the callers pass project and credentials explicitly.    *)
(***************************************************************************)
EXTENDS Naturals, Sequences, FiniteSets

(* ---- bounds of the model ---------------------------------------------- *)
MaxClients == 2
MaxBatches == 2
MaxImages == 1
NumThreads == 2
MaxCalls == 2
MaxFlagWrites == 1

(* ---- Python values ----------------------------------------------------- *)
PyNone == [tag |-> "NoneType", repr |-> "None"]
PyBool(b) == [tag |-> "bool", repr |-> IF b THEN "True" ELSE "False"]
PyStr(s) == [tag |-> "str", repr |-> s]

\* bool(v): None and False are false, a string is true iff it is not empty
Truthy(v) ==
    CASE v.tag = "NoneType" -> FALSE
      [] v.tag = "bool" -> v.repr = "True"
      [] v.tag = "str" -> v.repr # ""
      [] OTHER -> TRUE

\* the null object reference (the value None of the cached-adapter field)
NoneRef == 0

\* name of the environment variable (google.cloud.environment_vars)
DISABLE_GRPC == "GOOGLE_CLOUD_DISABLE_GRPC"

\* values the variable may hold when it is present in os.environ
EnvStrings == {"", "true"}

\* os.environ restricted to the one key the module reads
Environs == {[k \in D |-> s] : D \in SUBSET {DISABLE_GRPC}, s \in EnvStrings}

\* os.getenv(key, default) on the environment e
os_getenv(e, key, default) ==
    IF key \in DOMAIN e THEN PyStr(e[key]) ELSE default

\* right-hand side of  _USE_GAX = not os.getenv(DISABLE_GRPC, False)
UseGaxOfMutDefaultTrue(e) ==
    PyBool(~Truthy(os_getenv(e, DISABLE_GRPC, PyBool(TRUE))))
UseGaxOf(e) ==
    PyBool(~Truthy(os_getenv(e, DISABLE_GRPC, PyBool(FALSE))))

VARIABLES
    loaded,      \* the module google.cloud.vision.client has been imported
    USE_GAX,     \* the module constant _USE_GAX (PyNone before the import)
    environ,     \* os.environ, restricted to DISABLE_GRPC
    Client_vision_api_internal, \* class attribute Client._vision_api_internal
    clients,     \* heap of Client instances, in order of construction
    adapters,    \* heap of _GAPICVisionAPI / _HTTPVisionAPI instances
    batches,     \* heap of Batch instances
    images,      \* heap of Image instances
    thr,         \* SpecMT: the threads inside the _vision_api property
    raised,      \* history: the last exception raised by Client(...), with the inputs
    hist,        \* history, per Client: use_gax argument, accessor calls
                 \* (0, 1, 2 = two or more) and the adapters they returned
    batchLog,    \* history: calls of batch(): calling Client, returned Batch
    imageLog,    \* history: calls of image(): calling Client, inputs, returned Image
    environAtLoad, \* history: os.environ when the module was imported
    flagWrites,  \* history: number of reassignments of client._use_gax
    mtCalls      \* history: number of calls of _vision_api begun by the threads

vars == <<loaded, USE_GAX, environ, Client_vision_api_internal, clients,
          adapters, batches, images, thr, raised, hist, batchLog, imageLog,
          environAtLoad, flagWrites, mtCalls>>

Threads == 1..NumThreads
ClientIds == 1..Len(clients)

(* ---- inputs ------------------------------------------------------------ *)
ProjectArgs == {PyNone, PyStr("my-project")}
CredentialArgs == {PyNone, PyStr("credentials")}
\* what the identity-resolution collaborator finds in the ambient environment:
\* nothing, or a default project together with default credentials
Ambients == {[project |-> PyNone, credentials |-> PyNone],
             [project |-> PyStr("my-project"), credentials |-> PyStr("credentials")]}
UseGaxArgs == {PyNone, PyBool(TRUE), PyBool(FALSE)}
ContentArgs == {PyNone, PyStr("bytes")}
FilenameArgs == {PyNone, PyStr("x.png")}
SourceUriArgs == {PyNone, PyStr("gs://bucket/x.png")}

IdleThread == [pc |-> "idle", self |-> 0, tmp |-> NoneRef]

Init ==
    /\ loaded = FALSE
    /\ USE_GAX = PyNone
    /\ environ \in Environs
    /\ Client_vision_api_internal = NoneRef
    /\ clients = <<>>
    /\ adapters = <<>>
    /\ batches = <<>>
    /\ images = <<>>
    /\ thr = [t \in Threads |-> IdleThread]
    /\ raised = <<>>
    /\ hist = <<>>
    /\ batchLog = <<>>
    /\ imageLog = <<>>
    /\ environAtLoad = environ
    /\ flagWrites = 0
    /\ mtCalls = 0

(* ---- import of the module: line 28 ------------------------------------- *)
LoadModule ==
    /\ ~loaded
    /\ loaded' = TRUE
    /\ USE_GAX' = UseGaxOf(environ)
    /\ environAtLoad' = environ
    /\ UNCHANGED <<environ, Client_vision_api_internal, clients, adapters,
                   batches, images, thr, raised, hist, batchLog, imageLog,
                   flagWrites, mtCalls>>

(* ---- the process environment changes: os.environ[DISABLE_GRPC] = s, or  *)
(*      del os.environ[DISABLE_GRPC] -------------------------------------- *)
SetEnv ==
    /\ \E e \in Environs : e # environ /\ environ' = e
    /\ UNCHANGED <<loaded, USE_GAX, Client_vision_api_internal, clients,
                   adapters, batches, images, thr, raised, hist, batchLog,
                   imageLog, environAtLoad, flagWrites, mtCalls>>

(* ---- ClientWithProject.__init__ (google.cloud.client) ------------------ *)
\* an explicit value is used as given, otherwise the ambient default
Resolve(arg, ambient) == IF arg # PyNone THEN arg ELSE ambient

(* ---- Client.__init__: lines 64-71 -------------------------------------- *)
\* the value stored in self._use_gax (lines 68-71)
InitUseGaxMutIgnoresArg(use_gax) == USE_GAX
InitUseGaxMutReadsEnviron(use_gax) ==
    IF use_gax = PyNone THEN UseGaxOf(environ) ELSE use_gax
InitUseGax(use_gax) == IF use_gax = PyNone THEN USE_GAX ELSE use_gax

\* the new instance: __init__ sets no _vision_api_internal, so the instance
\* has no entry of its own (<<>>) and reads the class attribute (line 62)
NewClientMutEager(p, c, use_gax) ==
    [project |-> p, credentials |-> c, use_gax |-> InitUseGax(use_gax),
     vision_api_internal |-> <<Len(adapters) + 1>>]
NewClient(p, c, use_gax) ==
    [project |-> p, credentials |-> c, use_gax |-> InitUseGax(use_gax),
     vision_api_internal |-> <<>>]

Construct(project, credentials, ambient, use_gax) ==
    /\ loaded
    /\ LET p == Resolve(project, ambient.project)
           c == Resolve(credentials, ambient.credentials)
       IN IF p = PyNone \/ c = PyNone
          THEN /\ raised' =
                      <<[exc |-> "AuthenticationResolutionError",
                         project |-> project, credentials |-> credentials,
                         ambient |-> ambient]>>
               /\ UNCHANGED <<clients, hist>>
          ELSE /\ Len(clients) < MaxClients
               /\ clients' = Append(clients, NewClient(p, c, use_gax))
               /\ hist' = Append(hist,
                      [use_gax |-> use_gax, calls |-> 0, returned |-> {}])
               /\ UNCHANGED raised
    /\ UNCHANGED <<loaded, USE_GAX, environ, Client_vision_api_internal,
                   adapters, batches, images, thr, batchLog, imageLog,
                   environAtLoad, flagWrites, mtCalls>>

(* ---- Client.batch: lines 73-79 ----------------------------------------- *)
\* Batch(self)
NewBatch(self) == [client |-> self]

BatchMutResolvesAdapter(self) ==
    /\ Len(batches) < MaxBatches
    /\ batches' = Append(batches, [client |-> self])
    /\ batchLog' = Append(batchLog, [self |-> self, val |-> Len(batches) + 1])
    /\ adapters' = Append(adapters,
           [kind |-> IF Truthy(clients[self].use_gax) THEN "GAPIC" ELSE "HTTP",
            client |-> self])
    /\ clients' = [clients EXCEPT ![self].vision_api_internal = <<Len(adapters) + 1>>]
    /\ UNCHANGED <<loaded, USE_GAX, environ, Client_vision_api_internal,
                   images, thr, raised, hist, imageLog, environAtLoad,
                   flagWrites, mtCalls>>
Batch(self) ==
    /\ Len(batches) < MaxBatches
    /\ batches' = Append(batches, NewBatch(self))
    /\ batchLog' = Append(batchLog, [self |-> self, val |-> Len(batches) + 1])
    /\ UNCHANGED <<loaded, USE_GAX, environ, Client_vision_api_internal,
                   clients, adapters, images, thr, raised, hist, imageLog,
                   environAtLoad, flagWrites, mtCalls>>

(* ---- Client.image: lines 81-97 ----------------------------------------- *)
\* Image(client=self, content=content, filename=filename, source_uri=source_uri)
NewImageMutContentWins(self, content, filename, source_uri) ==
    [client |-> self, content |-> content,
     filename |-> IF content # PyNone THEN PyNone ELSE filename,
     source_uri |-> IF content # PyNone THEN PyNone ELSE source_uri]
NewImage(self, content, filename, source_uri) ==
    [client |-> self, content |-> content, filename |-> filename,
     source_uri |-> source_uri]

Image(self, content, filename, source_uri) ==
    /\ Len(images) < MaxImages
    /\ images' = Append(images, NewImage(self, content, filename, source_uri))
    /\ imageLog' = Append(imageLog,
           [self |-> self, val |-> Len(images) + 1, content |-> content,
            filename |-> filename, source_uri |-> source_uri])
    /\ UNCHANGED <<loaded, USE_GAX, environ, Client_vision_api_internal,
                   clients, adapters, batches, thr, raised, hist, batchLog,
                   environAtLoad, flagWrites, mtCalls>>

(* ---- Client._vision_api: lines 99-113 ---------------------------------- *)
\* self._vision_api_internal: the instance's own entry, else the class attribute
GetInternal(cs, cls, self) ==
    IF cs[self].vision_api_internal # <<>>
    THEN cs[self].vision_api_internal[1]
    ELSE cls

\* line 108:  self._vision_api_internal is None
IsUnresolvedMutAlways(self) == TRUE
IsUnresolvedMutLiveSwitch(self) ==
    LET a == IF clients[self].vision_api_internal # <<>>
             THEN clients[self].vision_api_internal[1]
             ELSE Client_vision_api_internal
    IN a = NoneRef
       \/ (adapters[a].kind = "GAPIC") # Truthy(clients[self].use_gax)
IsUnresolved(self) ==
    GetInternal(clients, Client_vision_api_internal, self) = NoneRef

\* lines 109-112: _GAPICVisionAPI(self) if self._use_gax else _HTTPVisionAPI(self)
NewAdapter(self) ==
    [kind |-> IF Truthy(clients[self].use_gax) THEN "GAPIC" ELSE "HTTP",
     client |-> self]

\* lines 110/112: the assignment self._vision_api_internal = <adapter ref>
StoreInternalMutClassAttribute(self, ref) ==
    /\ Client_vision_api_internal' = ref
    /\ UNCHANGED clients
StoreInternalMutLost(self, ref) ==
    UNCHANGED <<clients, Client_vision_api_internal>>
StoreInternal(self, ref) ==
    /\ clients' = [clients EXCEPT ![self].vision_api_internal = <<ref>>]
    /\ UNCHANGED Client_vision_api_internal

\* history: one more call, counted up to "two or more"
Called(n) == IF n < 2 THEN n + 1 ELSE n

\* the whole property, run to completion by one caller
VisionApi(self) ==
    /\ IF IsUnresolved(self)
       THEN /\ adapters' = Append(adapters, NewAdapter(self))
            /\ StoreInternal(self, Len(adapters) + 1)
       ELSE UNCHANGED <<adapters, clients, Client_vision_api_internal>>
    /\ hist' = [hist EXCEPT
           ![self].calls = Called(@),
           ![self].returned = @ \cup
               {GetInternal(clients', Client_vision_api_internal', self)}]
    /\ UNCHANGED <<loaded, USE_GAX, environ, batches, images, thr, raised,
                   batchLog, imageLog, environAtLoad, flagWrites, mtCalls>>

DoConstruct ==
    \E p \in ProjectArgs, c \in CredentialArgs, amb \in Ambients,
       g \in UseGaxArgs : Construct(p, c, amb, g)
\* Client(project, credentials, use_gax=...) by a caller that passes both
\* project and credentials, where nothing is left to resolve
DoConstructExplicit ==
    \E g \in UseGaxArgs :
        Construct(PyStr("my-project"), PyStr("credentials"),
                  [project |-> PyNone, credentials |-> PyNone], g)
DoVisionApi == \E self \in ClientIds : VisionApi(self)
DoBatch == \E self \in ClientIds : Batch(self)
DoImage ==
    \E self \in ClientIds, content \in ContentArgs, filename \in FilenameArgs,
       source_uri \in SourceUriArgs : Image(self, content, filename, source_uri)

Next == LoadModule \/ SetEnv \/ DoConstruct \/ DoVisionApi
Spec == Init /\ [][Next]_vars

NextBatch == LoadModule \/ DoConstructExplicit \/ DoVisionApi \/ DoBatch
SpecBatch == Init /\ [][NextBatch]_vars

NextImage == LoadModule \/ DoConstructExplicit \/ DoVisionApi \/ DoImage
SpecImage == Init /\ [][NextImage]_vars

(* ---- the caller reassigns client._use_gax ------------------------------ *)
SetFlag(self, v) ==
    /\ flagWrites < MaxFlagWrites
    /\ v # clients[self].use_gax
    /\ clients' = [clients EXCEPT ![self].use_gax = v]
    /\ flagWrites' = flagWrites + 1
    /\ UNCHANGED <<loaded, USE_GAX, environ, Client_vision_api_internal,
                   adapters, batches, images, thr, raised, hist, batchLog,
                   imageLog, environAtLoad, mtCalls>>

DoSetFlag ==
    \E self \in ClientIds, v \in {PyBool(TRUE), PyBool(FALSE)} : SetFlag(self, v)

NextFlag ==
    LoadModule \/ SetEnv \/ DoConstructExplicit \/ DoVisionApi \/ DoSetFlag
SpecFlag == Init /\ [][NextFlag]_vars

NextAll == NextFlag \/ DoBatch \/ DoImage
SpecAll == Init /\ [][NextAll]_vars

(* ---- Client._vision_api entered by several threads --------------------- *)
(* One step per read or write of the instance: the test of line 108, the   *)
(* test of line 109 with the constructor call of line 110 or 112, the      *)
(* assignment of line 110 or 112, and the read of line 113.                *)
\* a thread calls the property:  if self._vision_api_internal is None:
L108(t, self) ==
    /\ thr[t].pc = "idle"
    /\ mtCalls < MaxCalls
    /\ mtCalls' = mtCalls + 1
    /\ thr' = [thr EXCEPT ![t] =
           [pc |-> IF IsUnresolved(self) THEN "L109" ELSE "L113",
            self |-> self, tmp |-> NoneRef]]
    /\ UNCHANGED <<loaded, USE_GAX, environ, Client_vision_api_internal,
                   clients, adapters, batches, images, raised, hist, batchLog,
                   imageLog, environAtLoad, flagWrites>>

\* if self._use_gax:  _GAPICVisionAPI(self)  else:  _HTTPVisionAPI(self)
L109(t) ==
    /\ thr[t].pc = "L109"
    /\ adapters' = Append(adapters, NewAdapter(thr[t].self))
    /\ thr' = [thr EXCEPT ![t].pc = "store", ![t].tmp = Len(adapters) + 1]
    /\ UNCHANGED <<loaded, USE_GAX, environ, Client_vision_api_internal,
                   clients, batches, images, raised, hist, batchLog,
                   imageLog, environAtLoad, flagWrites, mtCalls>>

\* self._vision_api_internal = <the adapter just constructed>
Store(t) ==
    /\ thr[t].pc = "store"
    /\ StoreInternal(thr[t].self, thr[t].tmp)
    /\ thr' = [thr EXCEPT ![t].pc = "L113"]
    /\ UNCHANGED <<loaded, USE_GAX, environ, adapters, batches, images,
                   raised, hist, batchLog, imageLog, environAtLoad,
                   flagWrites, mtCalls>>

\* return self._vision_api_internal
L113(t) ==
    /\ thr[t].pc = "L113"
    /\ hist' = [hist EXCEPT
           ![thr[t].self].calls = Called(@),
           ![thr[t].self].returned = @ \cup
               {GetInternal(clients, Client_vision_api_internal, thr[t].self)}]
    /\ thr' = [thr EXCEPT ![t] = IdleThread]
    /\ UNCHANGED <<loaded, USE_GAX, environ, Client_vision_api_internal,
                   clients, adapters, batches, images, raised, batchLog,
                   imageLog, environAtLoad, flagWrites, mtCalls>>

NextMT ==
    \/ LoadModule
    \/ DoConstructExplicit
    \/ \E t \in Threads, self \in ClientIds : L108(t, self)
    \/ \E t \in Threads : L109(t)
    \/ \E t \in Threads : Store(t)
    \/ \E t \in Threads : L113(t)

SpecMT == Init /\ [][NextMT]_vars

(* ======================================================================== *)
(* Properties                                                               *)
(* ======================================================================== *)
Cached(self) == GetInternal(clients, Client_vision_api_internal, self)
AdaptersOf(self) == {a \in 1..Len(adapters) : adapters[a].client = self}
AllIdle == \A t \in Threads : thr[t].pc = "idle"
\* the variable is present in the environment e
TogglePresent(e) == DISABLE_GRPC \in DOMAIN e
\* the variable is present in e and holds a non-empty string
ToggleNonEmpty(e) == DISABLE_GRPC \in DOMAIN e /\ e[DISABLE_GRPC] # ""

\* C1: a Client constructed with an explicit use_gax gets, on its first (and
\* every) access of _vision_api, the adapter the argument names: GAPIC for
\* True, HTTP for False, whatever the environment variable holds or held.
C1_OverrideDecidesAdapter ==
    \A c \in ClientIds :
        (hist[c].use_gax # PyNone /\ hist[c].calls >= 1) =>
            /\ hist[c].returned # {}
            /\ \A a \in hist[c].returned :
                /\ a \in 1..Len(adapters)
                /\ adapters[a].kind =
                      IF hist[c].use_gax = PyBool(TRUE) THEN "GAPIC" ELSE "HTTP"

\* use_gax=True while the variable was set at import and is set now
C1_Witness ==
    \E c \in ClientIds :
        /\ hist[c].use_gax = PyBool(TRUE)
        /\ hist[c].calls >= 1
        /\ ToggleNonEmpty(environAtLoad)
        /\ ToggleNonEmpty(environ)
        /\ \E a \in hist[c].returned : adapters[a].kind = "GAPIC"

\* C2 as written: with use_gax unset the adapter is HTTP if the variable is
\* set and GAPIC if it is not; read here in the states where the variable has
\* the value it had at import, so that the moment of the read plays no part.
C2_Original ==
    \A c \in ClientIds :
        (hist[c].use_gax = PyNone /\ hist[c].calls >= 1
            /\ environ = environAtLoad) =>
            \A a \in hist[c].returned :
                adapters[a].kind =
                    IF TogglePresent(environ) THEN "HTTP" ELSE "GAPIC"

\* C2 amended: with use_gax unset the adapter is HTTP if the variable held a
\* non-empty string when the module was imported, and GAPIC if it was absent
\* or empty then.
C2_Amended ==
    \A c \in ClientIds :
        (hist[c].use_gax = PyNone /\ hist[c].calls >= 1) =>
            /\ hist[c].returned # {}
            /\ \A a \in hist[c].returned :
                /\ a \in 1..Len(adapters)
                /\ adapters[a].kind =
                      IF ToggleNonEmpty(environAtLoad) THEN "HTTP" ELSE "GAPIC"

\* the variable was present but empty at import: the adapter is GAPIC
C2_Witness ==
    \E c \in ClientIds :
        /\ hist[c].use_gax = PyNone
        /\ hist[c].calls >= 1
        /\ TogglePresent(environAtLoad)
        /\ ~ToggleNonEmpty(environAtLoad)
        /\ \E a \in hist[c].returned : adapters[a].kind = "GAPIC"

\* a step of Client(...) that returned the new instance n
Constructed(n) == Len(clients') = Len(clients) + 1 /\ n = Len(clients')

\* C3 as written: with use_gax unset, the flag of the new Client follows the
\* variable's value at the moment of the constructor call.
C3_Original ==
    [][\A n \in 1..MaxClients + 1 :
         (Constructed(n) /\ hist'[n].use_gax = PyNone) =>
             clients'[n].use_gax = PyBool(~ToggleNonEmpty(environ))]_vars

\* C3 amended: with use_gax unset, the flag of the new Client follows the
\* variable's value at the moment the module was imported, whatever the
\* variable holds at the moment of the constructor call.
C3_Amended ==
    [][\A n \in 1..MaxClients + 1 :
         (Constructed(n) /\ hist'[n].use_gax = PyNone) =>
             clients'[n].use_gax = PyBool(~ToggleNonEmpty(environAtLoad))]_vars

\* a Client built without use_gax whose flag is True although the variable
\* is set now: it was not set at import
C3_Witness ==
    \E c \in ClientIds :
        /\ hist[c].use_gax = PyNone
        /\ hist[c].calls = 0
        /\ flagWrites = 0
        /\ ToggleNonEmpty(environ)
        /\ ~ToggleNonEmpty(environAtLoad)
        /\ clients[c].use_gax = PyBool(TRUE)

\* C4: with one caller, all calls of _vision_api on a Client return the same
\* adapter, and that adapter is the only one ever constructed for the Client.
C4_AccessorIdempotent ==
    \A c \in ClientIds :
        /\ hist[c].calls >= 1 =>
              /\ Cardinality(hist[c].returned) = 1
              /\ hist[c].returned = AdaptersOf(c)
              /\ hist[c].returned = {Cached(c)}
        /\ hist[c].calls = 0 => AdaptersOf(c) = {}

\* two calls on the same Client
C4_Witness ==
    \E c \in ClientIds :
        /\ hist[c].calls >= 2
        /\ Cardinality(AdaptersOf(c)) = 1

\* C5: once the cached adapter of a Client is set, no step (accessor, batch,
\* image, reassignment of the flag, change of the environment, constructor)
\* replaces or clears it or changes its variant, and an accessor call returns it.
C5_MemoizedForever ==
    [][\A c \in ClientIds :
         Cached(c) # NoneRef =>
             /\ GetInternal(clients', Client_vision_api_internal', c) = Cached(c)
             /\ Len(adapters') >= Cached(c)
             /\ adapters'[Cached(c)] = adapters[Cached(c)]
             /\ hist'[c].returned \subseteq {Cached(c)}]_vars

\* a resolved Client holds a GAPIC adapter although its flag is now false and
\* the variable differs from its value at import, after two accessor calls
C5_Witness ==
    \E c \in ClientIds :
        /\ Cached(c) # NoneRef
        /\ adapters[Cached(c)].kind = "GAPIC"
        /\ ~Truthy(clients[c].use_gax)
        /\ environ # environAtLoad
        /\ hist[c].calls >= 2
        /\ hist[c].returned = {Cached(c)}
        /\ Len(batches) >= 1
        /\ Len(images) >= 1

C7_BatchFresh ==
    [][Len(batchLog') > Len(batchLog) =>
         LET e == batchLog'[Len(batchLog')]
         IN /\ e.val \in 1..Len(batches')
            /\ e.val \notin 1..Len(batches)
            /\ \A i \in 1..Len(batchLog) : batchLog[i].val # e.val
            /\ batches'[e.val].client = e.self
            /\ clients' = clients
            /\ adapters' = adapters
            /\ Client_vision_api_internal' = Client_vision_api_internal]_vars

\* two batches from the same, still unresolved, second Client
C7_Witness ==
    /\ Len(batchLog) >= 2
    /\ batchLog[1].self = 2
    /\ batchLog[2].self = 2
    /\ batchLog[1].val # batchLog[2].val
    /\ Cached(2) = NoneRef
    /\ AdaptersOf(2) = {}

\* C8: every Image returned by image() is a new object bound to the calling
\* Client and holds content, filename and source_uri as they were passed,
\* whichever of them were supplied.
C8_ImageCarriesInputs ==
    \A i \in 1..Len(imageLog) :
        LET e == imageLog[i]
        IN /\ e.val \in 1..Len(images)
           /\ \A j \in 1..Len(imageLog) : j # i => imageLog[j].val # e.val
           /\ images[e.val].client = e.self
           /\ images[e.val].content = e.content
           /\ images[e.val].filename = e.filename
           /\ images[e.val].source_uri = e.source_uri

\* a call that supplied all three inputs returned an Image holding all three
C8_Witness ==
    \E i \in 1..Len(imageLog) :
        /\ imageLog[i].content # PyNone
        /\ imageLog[i].filename # PyNone
        /\ imageLog[i].source_uri # PyNone
        /\ images[imageLog[i].val].filename # PyNone
        /\ images[imageLog[i].val].source_uri # PyNone

\* C9: with several threads in the accessor, once all calls have returned
\* the memoized value of every Client for which an adapter was constructed
\* is one of the adapters constructed for it, and every call returned one of them.
C9_OneSurvives ==
    AllIdle =>
        \A c \in ClientIds :
            /\ AdaptersOf(c) # {} => Cached(c) \in AdaptersOf(c)
            /\ hist[c].returned \subseteq AdaptersOf(c)
            /\ hist[c].calls >= 1 => AdaptersOf(c) # {}

\* the race: two adapters were constructed for one Client, one is memoized
C9_Witness ==
    /\ AllIdle
    /\ \E c \in ClientIds :
        /\ Cardinality(AdaptersOf(c)) >= 2
        /\ Cached(c) \in AdaptersOf(c)

\* C10: the first access on a Client stores a new adapter bound to that
\* Client, of the variant its own flag names, and leaves every other Client
\* as it was; the class attribute stays None.
C10_PerInstance ==
    [][/\ Client_vision_api_internal' = NoneRef
       /\ \A c \in ClientIds :
            (Cached(c) = NoneRef
             /\ GetInternal(clients', Client_vision_api_internal', c) # NoneRef) =>
                LET a == GetInternal(clients', Client_vision_api_internal', c)
                IN /\ a \in 1..Len(adapters')
                   /\ a \notin 1..Len(adapters)
                   /\ adapters'[a].client = c
                   /\ adapters'[a].kind =
                         IF clients[c].use_gax = PyBool(TRUE)
                         THEN "GAPIC" ELSE "HTTP"
                   /\ hist'[c].calls > hist[c].calls
                   /\ \A d \in ClientIds \ {c} :
                        /\ clients'[d] = clients[d]
                        /\ GetInternal(clients', Client_vision_api_internal', d)
                               = Cached(d)]_vars

\* two Clients, each resolved to its own adapter, of different variants
C10_Witness ==
    \E c, d \in ClientIds :
        /\ c # d
        /\ Cached(c) # NoneRef
        /\ Cached(d) # NoneRef
        /\ adapters[Cached(c)] = [kind |-> "GAPIC", client |-> c]
        /\ adapters[Cached(d)] = [kind |-> "HTTP", client |-> d]
        /\ Client_vision_api_internal = NoneRef
====
